---- MODULE Spec2Model ----
(***************************************************************************)
(* A model of enigma.py: class EnigmaForDummies, a Metropolis-Hastings     *)
(* breaker of monoalphabetic substitution ciphers.                         *)
(*                                                                         *)
(* Texts are sequences of one-character strings.  A python dict is a       *)
(* function whose domain is the set of its keys.  A probability and a      *)
(* score are exact rationals <<numerator, denominator>>: the score the     *)
(* code keeps is s = sum of np.log(p); the model keeps exp(s) = product of *)
(* the p, and compares two scores by cross-multiplication, which is the    *)
(* order of the sums because np.log is strictly increasing.                *)
(***************************************************************************)
EXTENDS Integers, Sequences, FiniteSets, TLC

\* ------------------------------------------------------------------ bounds

\* Number of symbols of the alphabet kept by the model (27 in the code).
AlphabetSize == 3
\* Longest text handed to encrypt_text, score_cipher and process_decryption.
MaxTextLen == 2
\* Largest iters handed to process_decryption.
MaxIters == 2
\* Corpus files of the engine lifecycle: lines per file, symbols per line.
MaxLines == 1
MaxLineLen == 2
\* Corpus files of the training specification.
TrainMaxLines == 1
TrainMaxLineLen == 3
\* Number of states of the abstract pseudo-random generators.
RngModulus == 16
\* Calls another engine instance makes while a seeded run is under way.
MaxOtherCalls == 1

\* ------------------------------------------------------- program constants

\* np.ones((n, n)) + 1: the weight of a cell no observed pair overwrites.
Pseudocount == 2
\* "i % 500 == 0": the period of the progress check.
ReportPeriod == 500
\* "[:100]": the length of the printed sample.
SampleLen == 100

\* ---------------------------------------------------------------- alphabet

\* " " + string.ascii_lowercase
FullAlphabet ==
  << " ", "a", "b", "c", "d", "e", "f", "g", "h", "i", "j", "k", "l", "m",
     "n", "o", "p", "q", "r", "s", "t", "u", "v", "w", "x", "y", "z" >>

\* What str.lower() maps onto FullAlphabet, position by position.
FullUpper ==
  << " ", "A", "B", "C", "D", "E", "F", "G", "H", "I", "J", "K", "L", "M",
     "N", "O", "P", "Q", "R", "S", "T", "U", "V", "W", "X", "Y", "Z" >>

\* self.alphabet, cut to the model's AlphabetSize first symbols.
alphabet == [k \in 1..AlphabetSize |-> FullAlphabet[k]]

Range(f) == {f[x] : x \in DOMAIN f}

AlphabetSet == Range(alphabet)

\* self.char_index_mapping = dict(zip(list(alphabet), range(len(alphabet))))
char_index_mapping == [s \in AlphabetSet |-> (CHOOSE k \in 1..AlphabetSize : alphabet[k] = s) - 1]

\* Characters a caller may pass: the alphabet, an upper-case letter and a
\* punctuation mark.
RawChars == AlphabetSet \cup {"A", "!"}

SeqsUpTo(S, n) == UNION {[1..k -> S] : k \in 0..n}

\* str.lower() on one character.
Lower(c) ==
  IF \E k \in 2..Len(FullUpper) : FullUpper[k] = c
  THEN FullAlphabet[CHOOSE k \in 2..Len(FullUpper) : FullUpper[k] = c]
  ELSE c

\* self.regex_pattern = re.compile("[^a-z ]"): the characters sub() removes,
\* "a-z" being the letters of the model's alphabet.
MatchesPattern(c) == c \notin AlphabetSet

RECURSIVE RegexSub(_)
\* self.regex_pattern.sub("", t)
RegexSub(t) ==
  IF t = <<>> THEN <<>>
  ELSE IF MatchesPattern(Head(t)) THEN RegexSub(Tail(t))
       ELSE <<Head(t)>> \o RegexSub(Tail(t))

\* self.regex_pattern.sub("", text.lower())
Clean(t) == RegexSub([k \in DOMAIN t |-> Lower(t[k])])

\* --------------------------------------------------------------- rationals

RatGt(a, b) == a[1] * b[2] > b[1] * a[2]
RatEq(a, b) == a[1] * b[2] = b[1] * a[2]
RatGeq(a, b) == a[1] * b[2] >= b[1] * a[2]
RatMul(a, b) == <<a[1] * b[1], a[2] * b[2]>>
RatAdd(a, b) == <<a[1] * b[2] + b[1] * a[2], a[2] * b[2]>>

\* ------------------------------------------------------------ dictionaries

\* dict(zip(keys, vals)): a key given twice keeps its last value.  (@@ <<>>
\* makes the function an explicit one, evaluated once.)
DictZip(keys, vals) ==
  LET n == IF Len(keys) < Len(vals) THEN Len(keys) ELSE Len(vals)
      last(k) == CHOOSE x \in 1..n : keys[x] = k /\ \A y \in 1..n : keys[y] = k => y <= x
  IN [k \in {keys[x] : x \in 1..n} |-> vals[last(k)]] @@ <<>>

\* Position of a symbol in the order sorted() puts one-character strings in
\* (" " before "a" .. "z").
Rank(s) == CHOOSE k \in 1..Len(FullAlphabet) : FullAlphabet[k] = s

\* {v: k for k, v in cipher.items()}.  A bijection has one key per image; of
\* several keys with one image the model keeps the last in alphabet order.
InvertDict(cipher) ==
  [v \in Range(cipher) |->
     CHOOSE k \in DOMAIN cipher :
       cipher[k] = v /\ \A k2 \in DOMAIN cipher : cipher[k2] = v => Rank(k2) <= Rank(k)] @@ <<>>

\* mapping[s] raises KeyError for a symbol that is no key.
RaisesKeyError(text, mapping) == \E k \in DOMAIN text : text[k] \notin DOMAIN mapping

\* encrypt_or_decrypt: "".join([mapping[s] for s in text])
encrypt_or_decrypt(text, mapping) == [k \in DOMAIN text |-> mapping[text[k]]]

\* ---------------------------------------------------------------- training

\* clean_line.repeat(2)
Repeat2(line) == [k \in 1..(2 * Len(line)) |-> line[(k + 1) \div 2]]

\* x[1:-1]
Slice1m1(x) == IF Len(x) <= 2 THEN <<>> ELSE SubSeq(x, 2, Len(x) - 1)

\* x.reshape(-1, 2)
Reshape2(x) == [r \in 1..(Len(x) \div 2) |-> <<x[2 * r - 1], x[2 * r]>>]

\* transitions = clean_line.repeat(2)[1:-1].reshape(-1, 2)
Transitions(line) == Reshape2(Slice1m1(Repeat2(Clean(line))))

RECURSIVE CountPairs(_, _)
\* for i, j in transitions: counts[(i, j)] = counts.setdefault((i, j), 0) + 1
CountPairs(counts, transitions) ==
  IF transitions = <<>> THEN counts
  ELSE LET p == Head(transitions)
           c == IF p \in DOMAIN counts THEN counts[p] ELSE 0
       IN CountPairs([q \in DOMAIN counts \cup {p} |-> IF q = p THEN c + 1 ELSE counts[q]],
                     Tail(transitions))

RECURSIVE CountLines(_, _)
\* for line in f: ... (the dictionary is shared by all the lines)
CountLines(counts, lines) ==
  IF lines = <<>> THEN counts
  ELSE CountLines(CountPairs(counts, Transitions(Head(lines))), Tail(lines))

\* char_bigram_counts = {}
EmptyDict == [p \in {} |-> 0]

\* The mutated matrix start: np.zeros((n, n)).
InitialCellZero == Pseudocount - Pseudocount

\* transition_matrix = np.ones((n, n)) + 1: the value of every cell.
InitialCell == Pseudocount

\* The mutated fill: the observed count is added to the cell.
FillCellAdd(start, count) == start + count

\* transition_matrix[...][...] = char_bigram_counts[s_pair]: the cell's new value.
FillCell(start, count) == count

\* The matrix after "fill in transition matrix for each pair", indexed by
\* unigram_to_index (0 .. n-1).
FillMatrix(counts) ==
  [a \in 0..(AlphabetSize - 1) |->
    [b \in 0..(AlphabetSize - 1) |->
       LET p == <<alphabet[a + 1], alphabet[b + 1]>>
       IN IF p \in DOMAIN counts THEN FillCell(InitialCell, counts[p]) ELSE InitialCell]]

RECURSIVE SumTo(_, _)
SumTo(row, b) == IF b < 0 THEN 0 ELSE row[b] + SumTo(row, b - 1)

\* row_sums = transition_matrix.sum(axis=1)
RowSums(m) == [a \in DOMAIN m |-> SumTo(m[a], AlphabetSize - 1)]

\* transition_matrix / row_sums[:, np.newaxis]
Normalize(m) == [a \in DOMAIN m |-> [b \in DOMAIN m[a] |-> <<m[a][b], RowSums(m)[a]>>]]

\* ----------------------------------------------------------------- ciphers

\* The mutated proposal: the second assignment reads the updated copy.
SwapOverwritten(cifer, r1, r2) ==
  LET step1 == [cifer EXCEPT ![r1] = cifer[r2]]
  IN [step1 EXCEPT ![r2] = step1[r1]]

\* new_cifer = current_cifer.copy(); new_cifer[r1] = current_cifer[r2];
\* new_cifer[r2] = current_cifer[r1]
Swap(cifer, r1, r2) ==
  LET step1 == [cifer EXCEPT ![r1] = cifer[r2]]
  IN [step1 EXCEPT ![r2] = cifer[r1]]

RECURSIVE ShuffleFrom(_, _, _)
\* random.shuffle(x): for p from the last position down to the second, exchange
\* x[p] with x[js[p]], js[p] drawn from the positions up to p.
ShuffleFrom(x, js, p) ==
  IF p < 2 THEN x
  ELSE ShuffleFrom([x EXCEPT ![p] = x[js[p]], ![js[p]] = x[p]], js, p - 1)

shuffle(x, js) == ShuffleFrom(x, js, Len(x))

\* The draws one shuffle of the alphabet can make.
ShuffleDraws == {js \in [2..AlphabetSize -> 1..AlphabetSize] : \A p \in 2..AlphabetSize : js[p] <= p}

\* Values random.uniform(0, 1) can return: 0, 1/2 and one just below 1.
Uniform01 == {<<0, 1>>, <<1, 2>>, <<1023, 1024>>}

\* ----------------------------------------------------------------- scoring

\* The value of a local or a result no statement has assigned yet.
NoDict == <<>>
NoScore == <<0, 1>>
\* self.empirical_frequences before prepare_empirical_freq_normalized set it.
NoMatrix == <<>>

RECURSIVE ScoreFrom(_, _, _)
\* for i in range(len(decrypted) - 1): score += np.log(freq[first][second]),
\* kept as the product of the probabilities.
ScoreFrom(decrypted, freq, k) ==
  IF k >= Len(decrypted) THEN <<1, 1>>
  ELSE RatMul(freq[char_index_mapping[decrypted[k]]][char_index_mapping[decrypted[k + 1]]],
              ScoreFrom(decrypted, freq, k + 1))

\* score_cipher(cipher, encrypted) on an engine whose matrix is freq:
\* what it raises ("none" when it returns) and the score it returns.
score_cipher(cipher, encrypted, freq) ==
  LET inverse == InvertDict(cipher)
  IN IF RaisesKeyError(encrypted, inverse)
     THEN [raised |-> "KeyError", value |-> NoScore]
     ELSE IF Len(encrypted) >= 2 /\ freq = NoMatrix
     THEN [raised |-> "AttributeError", value |-> NoScore]
     ELSE IF Len(encrypted) < 2
     THEN [raised |-> "none", value |-> <<1, 1>>]
     ELSE [raised |-> "none",
           value |-> ScoreFrom(encrypt_or_decrypt(encrypted, inverse), freq, 1)]

\* new_score > current_score
ScoreGt(a, b) == RatGt(a, b)
ScoreGeq(a, b) == RatGeq(a, b)

\* The mutated acceptance rule: the search minimises the score.
AcceptsLower(new, current, u) ==
  \/ ScoreGt(current, new)
  \/ u[1] * current[2] * new[1] < u[2] * current[1] * new[2]

\* new_score > current_score or random.uniform(0, 1) < np.exp(new_score - current_score),
\* for the draw u; exp(new - current) is the quotient of the two products.
Accepts(new, current, u) ==
  \/ ScoreGt(new, current)
  \/ u[1] * new[2] * current[1] < u[2] * new[1] * current[2]

\* The mutated best-so-far test: the comparison is turned round.
ImprovesBestFlipped(new, best) == ScoreGt(best, new)

\* if new_score > best_score
ImprovesBest(new, best) == ScoreGt(new, best)

\* -------------------------------------------------------------- reporting

\* The values of verbose: False, integers, and a one-character string.
VerboseValues ==
  {[type |-> "bool", val |-> 0], [type |-> "int", val |-> 0], [type |-> "int", val |-> -1],
   [type |-> "int", val |-> ReportPeriod], [type |-> "str", val |-> 1]}

\* "and verbose": False, 0 and "" are false.
Truthy(v) == v.val # 0

\* type(verbose) is int and verbose > 0
VerboseAccepted(v) == v.type = "int" /\ v.val > 0

\* s[:100]
Sample(s) == IF Len(s) <= SampleLen THEN s ELSE SubSeq(s, 1, SampleLen)

\* ------------------------------------------------------------ final mapping

RECURSIVE SortedSeq(_)
\* sorted(keys)
SortedSeq(S) ==
  IF S = {} THEN <<>>
  ELSE LET m == CHOOSE s \in S : \A t \in S : Rank(s) <= Rank(t)
       IN <<m>> \o SortedSeq(S \ {m})

\* The mutated result: the forward mapping is applied.
BestMappingForward(best) == best

\* cipher_alphabet = sorted keys; plaintext_alphabet = their images;
\* mapping = dict(zip(plaintext_alphabet, cipher_alphabet))
BestMapping(best) ==
  LET cipher_alphabet == SortedSeq(DOMAIN best)
      plaintext_alphabet == [k \in DOMAIN cipher_alphabet |-> best[cipher_alphabet[k]]]
  IN DictZip(plaintext_alphabet, cipher_alphabet)

\* ------------------------------------------------------------------- state

VARIABLES
  emp_freq_prepared,     \* self.emp_freq_prepared
  empirical_frequences,  \* self.empirical_frequences (NoMatrix: not set)
  corpus,                \* the lines of the file last trained on
  char_bigram_counts,    \* the pair counts of the last training
  transition_matrix,     \* the matrix of the last training before normalization
  op,                    \* the method called last
  pc,                    \* "idle": no call; "loop": inside process_decryption; "done": the call ended
  outcome,               \* "none", "running", "returned" or the exception raised
  encrypted, iters, verbose,   \* the arguments of process_decryption (encrypted: of score_cipher too)
  cipher,                \* the argument of score_cipher
  shuffled_letters, current_cifer, current_score,
  best_cifer, best_score, new_cifer, new_score,
  i,                     \* the number of loop bodies completed: the next value of i
  accepted,              \* whether the last proposal was accepted
  text,                  \* the text of the call's last encrypt_or_decrypt
  stdout,                \* what the call printed
  decrypted_text,        \* what process_decryption returned
  score,                 \* what score_cipher returned
  encrypted_text,        \* what encrypt_text returned
  random_state,          \* the state of the module random's generator
  np_random_state,       \* the state of np.random's generator
  seed,                  \* the seed both generators were last seeded with
  run,                   \* which of the two seeded runs is under way
  first_output,          \* what the first seeded run returned
  other_calls            \* encrypt_text calls made by another engine instance

engine == <<emp_freq_prepared, empirical_frequences, corpus, char_bigram_counts, transition_matrix>>
args == <<encrypted, iters, verbose, cipher>>
locals == <<shuffled_letters, current_cifer, current_score, best_cifer, best_score,
            new_cifer, new_score, i, accepted>>
results == <<text, stdout, decrypted_text, score, encrypted_text>>
generators == <<random_state, np_random_state>>
harness == <<seed, run, first_output, other_calls>>
vars == <<engine, op, pc, outcome, args, locals, results, generators, harness>>

NoVerbose == [type |-> "bool", val |-> 0]

NoArgs ==
  /\ encrypted = <<>> /\ iters = 0 /\ verbose = NoVerbose /\ cipher = NoDict

NoLocals ==
  /\ shuffled_letters = <<>> /\ current_cifer = NoDict /\ current_score = NoScore
  /\ best_cifer = NoDict /\ best_score = NoScore
  /\ new_cifer = NoDict /\ new_score = NoScore
  /\ i = 0 /\ accepted = FALSE

NoResults ==
  /\ text = <<>> /\ stdout = <<>> /\ decrypted_text = <<>>
  /\ score = NoScore /\ encrypted_text = <<>>

\* __init__, in a process whose generators the model does not follow.
Init ==
  /\ emp_freq_prepared = FALSE
  /\ empirical_frequences = NoMatrix
  /\ corpus = <<>>
  /\ char_bigram_counts = EmptyDict
  /\ transition_matrix = NoMatrix
  /\ op = "__init__" /\ pc = "idle" /\ outcome = "none"
  /\ NoArgs /\ NoLocals /\ NoResults
  /\ random_state = 0 /\ np_random_state = 0
  /\ seed = 0 /\ run = 0 /\ first_output = <<>> /\ other_calls = 0

\* ----------------------------------------------------------------- inputs

CanonicalTexts == SeqsUpTo(AlphabetSet, MaxTextLen)
RawTexts == SeqsUpTo(RawChars, MaxTextLen)
\* The bijections of the alphabet, as dicts.
Ciphers == {c \in [AlphabetSet -> AlphabetSet] : Range(c) = AlphabetSet}
\* Corpus files of the engine lifecycle.
Corpora == SeqsUpTo(SeqsUpTo(AlphabetSet, MaxLineLen), MaxLines)
\* Characters of the corpus files of the training specification: two alphabet
\* symbols, an upper-case letter and a punctuation mark.
TrainChars == {" ", "a", "B", "!"}
\* Corpus files of the training specification.
TrainCorpora == SeqsUpTo(SeqsUpTo(TrainChars, TrainMaxLineLen), TrainMaxLines)

\* ---------------------------------------------------------------- training

\* prepare_empirical_freq_normalized on a file whose lines are c.
Train(c) ==
  /\ corpus' = c
  /\ char_bigram_counts' = CountLines(EmptyDict, c)
  /\ transition_matrix' = FillMatrix(char_bigram_counts')
  /\ empirical_frequences' = Normalize(transition_matrix')
  /\ emp_freq_prepared' = TRUE

prepare_empirical_freq_normalized(c) ==
  /\ pc = "idle"
  /\ Train(c)
  /\ op' = "prepare_empirical_freq_normalized" /\ pc' = "done" /\ outcome' = "returned"
  /\ UNCHANGED <<args, locals, results, generators, harness>>

\* ----------------------------------------------------- the other entry points

\* encrypt_text(t), its shuffle drawing js.
encrypt_text(t, js) ==
  /\ pc = "idle"
  /\ LET text_cleaned == Clean(t)
         shuffled_alphabet == shuffle(alphabet, js)
         random_cifer == DictZip(alphabet, shuffled_alphabet)
     IN /\ text' = text_cleaned
        /\ encrypted_text' = encrypt_or_decrypt(text_cleaned, random_cifer)
  /\ op' = "encrypt_text" /\ pc' = "done" /\ outcome' = "returned"
  /\ UNCHANGED <<engine, args, locals, stdout, decrypted_text, score, harness>>

\* A caller's score_cipher(c, e).
ScoreCipher(c, e) ==
  /\ pc = "idle"
  /\ cipher' = c /\ encrypted' = e /\ text' = e
  /\ LET r == score_cipher(c, e, empirical_frequences)
     IN /\ outcome' = IF r.raised = "none" THEN "returned" ELSE r.raised
        /\ score' = r.value
  /\ op' = "score_cipher" /\ pc' = "done"
  /\ UNCHANGED <<engine, iters, verbose, locals, stdout, decrypted_text, encrypted_text,
                 generators, harness>>

\* ------------------------------------------------------- process_decryption

\* Lines 120-127: the assertion, the random cipher, its score, the best so far.
Start(e, n, v, js) ==
  /\ pc = "idle"
  /\ op' = "process_decryption"
  /\ encrypted' = e /\ iters' = n /\ verbose' = v
  /\ IF ~emp_freq_prepared
     THEN /\ pc' = "done" /\ outcome' = "AssertionError"
          /\ UNCHANGED <<locals, text>>
     ELSE LET letters == shuffle(alphabet, js)
              cifer == DictZip(letters, alphabet)
              r == score_cipher(cifer, e, empirical_frequences)
          IN /\ shuffled_letters' = letters
             /\ current_cifer' = cifer
             /\ text' = e
             /\ IF r.raised # "none"
                THEN /\ pc' = "done" /\ outcome' = r.raised
                     /\ UNCHANGED <<current_score, best_cifer, best_score>>
                ELSE /\ pc' = "loop" /\ outcome' = "running"
                     /\ current_score' = r.value
                     /\ best_cifer' = cifer /\ best_score' = r.value
             /\ UNCHANGED <<new_cifer, new_score, i, accepted>>
  /\ UNCHANGED <<engine, cipher, stdout, decrypted_text, score, encrypted_text, harness>>

\* Lines 128-158: one body of the loop, np.random.choice drawing the
\* positions k1 and k2 and random.uniform drawing u.
Iterate(k1, k2, u) ==
  /\ pc = "loop" /\ i < iters
  /\ LET r1 == shuffled_letters[k1]
         r2 == shuffled_letters[k2]
         proposal == Swap(current_cifer, r1, r2)
         r == score_cipher(proposal, encrypted, empirical_frequences)
     IN /\ new_cifer' = proposal
        /\ IF r.raised # "none"
           THEN /\ pc' = "done" /\ outcome' = r.raised
                /\ UNCHANGED <<current_cifer, current_score, best_cifer, best_score,
                               new_score, i, accepted, text, stdout>>
           ELSE /\ new_score' = r.value
                /\ accepted' = Accepts(r.value, current_score, u)
                /\ current_cifer' = IF accepted' THEN proposal ELSE current_cifer
                /\ current_score' = IF accepted' THEN r.value ELSE current_score
                /\ best_score' = IF ImprovesBest(r.value, best_score) THEN r.value ELSE best_score
                /\ best_cifer' = IF ImprovesBest(r.value, best_score) THEN proposal ELSE best_cifer
                /\ IF i % ReportPeriod = 0 /\ Truthy(verbose)
                   THEN IF ~VerboseAccepted(verbose)
                        THEN /\ pc' = "done" /\ outcome' = "AssertionError"
                             /\ UNCHANGED <<i, text, stdout>>
                        ELSE /\ IF i % verbose.val = 0
                                THEN /\ text' = encrypted
                                     /\ stdout' = Append(stdout,
                                          <<i, Sample(encrypt_or_decrypt(encrypted, InvertDict(best_cifer')))>>)
                                ELSE UNCHANGED <<text, stdout>>
                             /\ i' = i + 1
                             /\ UNCHANGED <<pc, outcome>>
                   ELSE /\ i' = i + 1
                        /\ UNCHANGED <<pc, outcome, text, stdout>>
  /\ UNCHANGED <<engine, op, args, shuffled_letters, decrypted_text, score, encrypted_text, harness>>

\* Lines 160-167: the range is exhausted; the best mapping is applied.
Finish ==
  /\ pc = "loop" /\ i >= iters
  /\ LET mapping == BestMapping(best_cifer)
     IN IF RaisesKeyError(encrypted, mapping)
        THEN /\ outcome' = "KeyError" /\ UNCHANGED decrypted_text
        ELSE /\ outcome' = "returned"
             /\ decrypted_text' = encrypt_or_decrypt(encrypted, mapping)
  /\ text' = encrypted
  /\ pc' = "done"
  /\ UNCHANGED <<engine, op, args, locals, stdout, score, encrypted_text, harness>>

\* The caller has the call's result or exception; the frame is gone.
Return ==
  /\ pc = "done"
  /\ pc' = "idle" /\ op' = "none" /\ outcome' = "none"
  /\ encrypted' = <<>> /\ iters' = 0 /\ verbose' = NoVerbose /\ cipher' = NoDict
  /\ shuffled_letters' = <<>> /\ current_cifer' = NoDict /\ current_score' = NoScore
  /\ best_cifer' = NoDict /\ best_score' = NoScore
  /\ new_cifer' = NoDict /\ new_score' = NoScore
  /\ i' = 0 /\ accepted' = FALSE
  /\ text' = <<>> /\ stdout' = <<>> /\ decrypted_text' = <<>>
  /\ score' = NoScore /\ encrypted_text' = <<>>
  /\ UNCHANGED <<engine, generators, harness>>

\* --------------------------------------------------- the engine's lifecycle

Prepare == \E c \in Corpora : prepare_empirical_freq_normalized(c)

EncryptText ==
  \E t \in RawTexts, js \in ShuffleDraws : encrypt_text(t, js) /\ UNCHANGED generators

ScoreCipherCall == \E c \in Ciphers, e \in CanonicalTexts : ScoreCipher(c, e)

ProcessDecryption ==
  \E e \in RawTexts, n \in 0..MaxIters, v \in VerboseValues, js \in ShuffleDraws :
    Start(e, n, v, js) /\ UNCHANGED generators

LoopBody ==
  \E k1 \in 1..AlphabetSize, k2 \in 1..AlphabetSize, u \in Uniform01 :
    Iterate(k1, k2, u) /\ UNCHANGED generators

LoopExit == Finish /\ UNCHANGED generators

Next ==
  \/ Prepare
  \/ EncryptText
  \/ ScoreCipherCall
  \/ ProcessDecryption
  \/ LoopBody
  \/ LoopExit
  \/ Return

Spec == Init /\ [][Next]_vars

\* ------------------------------------------------- the training specification

\* The first training of a fresh engine, on any corpus file of TrainCorpora.
TrainFresh ==
  /\ ~emp_freq_prepared
  /\ \E c \in TrainCorpora : prepare_empirical_freq_normalized(c)

NextTrain ==
  \/ TrainFresh
  \/ Return

SpecTrain == Init /\ [][NextTrain]_vars

\* --------------------------------------------------- the seeded specification
\* random and np.random are module-level generators, shared by every engine
\* of the process.  Each is modelled as a linear congruential generator over
\* RngModulus states; a draw advances the generator and reads its new state.

RngNext(g) == (5 * g + 3) % RngModulus

RECURSIVE RngAfter(_, _)
\* The state after k draws.
RngAfter(g, k) == IF k = 0 THEN g ELSE RngAfter(RngNext(g), k - 1)

\* An integer below n read from the state g.
RandBelow(g, n) == (g * n) \div RngModulus

\* The draws of one random.shuffle of the alphabet from the state g: position
\* p is drawn at the (AlphabetSize - p + 1)-th draw.
ShuffleDrawsFrom(g) ==
  [p \in 2..AlphabetSize |-> 1 + RandBelow(RngAfter(g, AlphabetSize - p + 1), p)]

\* random.shuffle makes one draw for each position but the first.
DrawsPerShuffle == AlphabetSize - 1

\* random.seed(s); np.random.seed(s), on a trained engine at rest.
SeedGenerators ==
  /\ pc = "idle" /\ emp_freq_prepared /\ run = 0
  /\ \E s \in 0..(RngModulus - 1) :
       /\ seed' = s /\ random_state' = s /\ np_random_state' = s
  /\ run' = 1
  /\ UNCHANGED <<engine, op, pc, outcome, args, locals, results, first_output, other_calls>>

\* The first seeded run starts, on any ciphertext and iteration count, without
\* reporting.
SeededStart ==
  /\ run = 1
  /\ \E e \in CanonicalTexts, n \in 0..MaxIters :
       Start(e, n, NoVerbose, ShuffleDrawsFrom(random_state))
  /\ random_state' = RngAfter(random_state, DrawsPerShuffle)
  /\ UNCHANGED np_random_state

\* One loop body of a seeded run: np.random.choice draws twice, random.uniform
\* once and only when the proposal does not score higher.
SeededIterate ==
  /\ run \in {1, 2}
  /\ Iterate(1 + RandBelow(RngAfter(np_random_state, 1), AlphabetSize),
             1 + RandBelow(RngAfter(np_random_state, 2), AlphabetSize),
             <<RngNext(random_state), RngModulus>>)
  /\ np_random_state' = RngAfter(np_random_state, 2)
  /\ random_state' = IF ScoreGt(new_score', current_score)
                     THEN random_state ELSE RngNext(random_state)

SeededFinish ==
  /\ run \in {1, 2}
  /\ Finish
  /\ UNCHANGED generators

\* The first run has returned: its output is kept, both generators are seeded
\* again with the same seed, and the arguments are kept for the second run.
Reseed ==
  /\ run = 1 /\ pc = "done" /\ op = "process_decryption" /\ outcome = "returned"
  /\ first_output' = decrypted_text
  /\ run' = 2
  /\ random_state' = seed /\ np_random_state' = seed
  /\ pc' = "idle" /\ op' = "none" /\ outcome' = "none"
  /\ shuffled_letters' = <<>> /\ current_cifer' = NoDict /\ current_score' = NoScore
  /\ best_cifer' = NoDict /\ best_score' = NoScore
  /\ new_cifer' = NoDict /\ new_score' = NoScore
  /\ i' = 0 /\ accepted' = FALSE
  /\ text' = <<>> /\ stdout' = <<>> /\ decrypted_text' = <<>>
  /\ score' = NoScore /\ encrypted_text' = <<>>
  /\ UNCHANGED <<engine, args, seed, other_calls>>

\* The second seeded run starts, on the arguments of the first.
SeededRestart ==
  /\ run = 2
  /\ Start(encrypted, iters, NoVerbose, ShuffleDrawsFrom(random_state))
  /\ random_state' = RngAfter(random_state, DrawsPerShuffle)
  /\ UNCHANGED np_random_state

\* Another engine instance of the process runs encrypt_text during the second
\* run: its random.shuffle draws from the generator the two instances share.
\* The call touches no field of this engine.
OtherEngineEncrypt ==
  /\ run = 2 /\ pc \in {"idle", "loop"}
  /\ other_calls < MaxOtherCalls
  /\ other_calls' = other_calls + 1
  /\ random_state' = RngAfter(random_state, DrawsPerShuffle)
  /\ UNCHANGED <<engine, op, pc, outcome, args, locals, results, np_random_state,
                 seed, run, first_output>>

\* The engine is trained and at rest before the generators are seeded.
TrainUnseeded ==
  /\ run = 0 /\ ~emp_freq_prepared
  /\ \E c \in Corpora : prepare_empirical_freq_normalized(c)

ReturnUnseeded == run = 0 /\ Return

NextSeeded ==
  \/ TrainUnseeded
  \/ ReturnUnseeded
  \/ SeedGenerators
  \/ SeededStart
  \/ SeededIterate
  \/ SeededFinish
  \/ Reseed
  \/ SeededRestart
  \/ OtherEngineEncrypt

SpecSeeded == Init /\ [][NextSeeded]_vars

\* ------------------------------------------------------------------ claims

IsBijection(c) == DOMAIN c = AlphabetSet /\ Range(c) = AlphabetSet

\* The probability the trained matrix gives the pair (a, b) of symbols.
Prob(a, b) == empirical_frequences[char_index_mapping[a]][char_index_mapping[b]]

\* The cell of the pair (a, b) before normalization.
Weight(a, b) == transition_matrix[char_index_mapping[a]][char_index_mapping[b]]

RECURSIVE PairsIn(_, _, _)
\* How many times b follows a in the text t.
PairsIn(t, a, b) ==
  IF Len(t) < 2 THEN 0
  ELSE (IF t[1] = a /\ t[2] = b THEN 1 ELSE 0) + PairsIn(Tail(t), a, b)

RECURSIVE PairsInLines(_, _, _)
PairsInLines(lines, a, b) ==
  IF lines = <<>> THEN 0
  ELSE PairsIn(Head(lines), a, b) + PairsInLines(Tail(lines), a, b)

RECURSIVE CleanLines(_)
CleanLines(c) == IF c = <<>> THEN <<>> ELSE <<Clean(Head(c))>> \o CleanLines(Tail(c))

\* How many times each pair of alphabet symbols occurs, the second right
\* after the first, inside a canonicalized line of the corpus c.
Occurrences(c) ==
  LET lines == CleanLines(c)
  IN [p \in AlphabetSet \X AlphabetSet |-> PairsInLines(lines, p[1], p[2])] @@ <<>>

RECURSIVE RowTotal(_, _)
\* The sum of the first b + 1 probabilities of a row, as a rational.
RowTotal(row, b) == IF b < 0 THEN <<0, 1>> ELSE RatAdd(row[b], RowTotal(row, b - 1))

\* C1: inside process_decryption the current cipher, the last proposal and
\* the best cipher are bijections of the alphabet onto itself, whatever pairs
\* were drawn (equal ones included) and whatever was accepted or rejected.
C1_CiphersStayBijections ==
  op = "process_decryption" =>
    /\ current_cifer # NoDict => IsBijection(current_cifer)
    /\ new_cifer # NoDict => IsBijection(new_cifer)
    /\ best_cifer # NoDict => IsBijection(best_cifer)

\* Two proposals were made, the last one rejected, and the walk has left the
\* best cipher.
C1_Witness ==
  /\ pc = "loop" /\ i = 2 /\ ~accepted
  /\ new_cifer # current_cifer /\ best_cifer # current_cifer

\* C2: no step of a run lowers best_score.
C2_BestScoreNeverDecreases == [][pc = "loop" => ScoreGeq(best_score', best_score)]_vars

\* A proposal scoring below the best was accepted, and the best score stands
\* above the current one.
C2_Witness ==
  /\ pc = "loop" /\ i = 2 /\ accepted
  /\ ScoreGt(best_score, new_score) /\ ScoreGt(best_score, current_score)

\* C3: on an untrained engine neither score_cipher nor process_decryption
\* returns a score or a decoding.
C3_UntrainedNeverReturns ==
  (~emp_freq_prepared /\ op \in {"score_cipher", "process_decryption"}) => outcome # "returned"

\* C4: every text handed to encrypt_or_decrypt (by encrypt_text, by
\* score_cipher, by process_decryption) holds alphabet symbols only.
C4_OnlyAlphabetReachesCipher == \A k \in DOMAIN text : text[k] \in AlphabetSet

\* C5: with reporting enabled and an interval that is no positive integer,
\* process_decryption never returns a decoding, whatever iters is.
C5_BadIntervalNeverReturns ==
  (op = "process_decryption" /\ Truthy(verbose) /\ ~VerboseAccepted(verbose))
    => outcome # "returned"

\* C6: the second run, made after the generators were seeded again with the
\* same seed, on the same engine and arguments, returns what the first run
\* returned, whatever another engine instance did meanwhile.
C6_SameSeedSameOutput ==
  (run = 2 /\ op = "process_decryption" /\ outcome = "returned") => decrypted_text = first_output

\* C7: a process_decryption that returns has run the loop body iters times
\* and returns the ciphertext under the inverse of best_cifer, the inversion
\* score_cipher uses; with iters = 0 best_cifer is the initial random cipher.
C7_ReturnsInverseOfBest ==
  (op = "process_decryption" /\ outcome = "returned") =>
    /\ i = iters
    /\ decrypted_text = encrypt_or_decrypt(encrypted, InvertDict(best_cifer))
    /\ iters = 0 => best_cifer = DictZip(shuffled_letters, alphabet)

\* A run of two iterations returned a text of two symbols after the walk had
\* left the best cipher.
C7_Witness ==
  /\ op = "process_decryption" /\ outcome = "returned"
  /\ iters = 2 /\ Len(encrypted) = 2 /\ best_cifer # current_cifer
  /\ decrypted_text # encrypted

\* C8: every entry of a trained matrix is greater than 0 and every row sums
\* to 1; trained on the empty corpus every entry is 1 / AlphabetSize.
C8_MatrixIsStochastic ==
  emp_freq_prepared =>
    \A a \in 0..(AlphabetSize - 1) :
      /\ \A b \in 0..(AlphabetSize - 1) :
           /\ empirical_frequences[a][b][1] > 0
           /\ empirical_frequences[a][b][2] > 0
           /\ corpus = <<>> => RatEq(empirical_frequences[a][b], <<1, AlphabetSize>>)
      /\ RatEq(RowTotal(empirical_frequences[a], AlphabetSize - 1), <<1, 1>>)

\* The corpus has a line that canonicalization shortens and that contributes
\* a pair.
C8_Witness ==
  /\ emp_freq_prepared
  /\ \E l \in DOMAIN corpus : Len(Clean(corpus[l])) < Len(corpus[l])
  /\ char_bigram_counts # EmptyDict

\* C9 as stated: a pair seen exactly once has the weight and the probability
\* of an unseen pair of its row.
C9_OnceSeenEqualsUnseen ==
  emp_freq_prepared =>
    LET occ == Occurrences(corpus)
    IN \A a \in AlphabetSet, b \in AlphabetSet, b2 \in AlphabetSet :
         (occ[<<a, b>>] = 1 /\ occ[<<a, b2>>] = 0) =>
           /\ Weight(a, b) = Weight(a, b2)
           /\ RatEq(Prob(a, b), Prob(a, b2))

\* C9 amended: a pair seen exactly twice has the weight (2) and the
\* probability of an unseen pair of its row; a pair seen exactly once has
\* weight 1, half the weight and half the probability of an unseen pair.
C9_TwiceSeenEqualsUnseen ==
  emp_freq_prepared =>
    LET occ == Occurrences(corpus)
    IN \A a \in AlphabetSet, b \in AlphabetSet :
         /\ occ[<<a, b>>] = 2 =>
              \A b2 \in AlphabetSet :
                occ[<<a, b2>>] = 0 =>
                  /\ Weight(a, b) = Weight(a, b2)
                  /\ RatEq(Prob(a, b), Prob(a, b2))
         /\ occ[<<a, b>>] = 1 =>
              /\ Weight(a, b) = 1
              /\ \A b2 \in AlphabetSet :
                   occ[<<a, b2>>] = 0 =>
                     /\ 2 * Weight(a, b) = Weight(a, b2)
                     /\ RatEq(RatAdd(Prob(a, b), Prob(a, b)), Prob(a, b2))

\* One row holds a pair seen twice and an unseen pair.
C9_Witness ==
  /\ emp_freq_prepared
  /\ LET occ == Occurrences(corpus)
     IN \E a \in AlphabetSet, b \in AlphabetSet, b2 \in AlphabetSet :
          /\ occ[<<a, b>>] = 2
          /\ occ[<<a, b2>>] = 0

\* C10: inside the loop best_score >= current_score, and a step changes
\* best_cifer or best_score only when its proposal is accepted.
C10_BestAtLeastCurrent ==
  /\ [](pc = "loop" => ScoreGeq(best_score, current_score))
  /\ [][pc = "loop" =>
         ((best_cifer' # best_cifer \/ best_score' # best_score) => accepted')]_vars

\* A proposal that is not the best cipher was rejected, after an accepted one
\* had become the best.
C10_Witness ==
  /\ pc = "loop" /\ i = 2 /\ ~accepted
  /\ new_cifer # best_cifer /\ best_cifer = current_cifer
  /\ best_cifer # DictZip(shuffled_letters, alphabet)

====
